---- MODULE Spec2Model ----
(***************************************************************************)
(* A state-machine model of flinux's socket layer (src/fs/socket.c): the   *)
(* per-socket sticky readiness state built on a WinSock event object, the  *)
(* send/receive primitives, socket creation and teardown, connect, the     *)
(* sendmmsg emulation, the socketcall dispatcher and the error translator. *)
(*                                                                         *)
(* One guest thread issues syscalls; the host (WinSock) is the environment *)
(* and posts network events asynchronously.  A syscall that can suspend in *)
(* WaitForSingleObject is split at its wait loop (pc); every other handler *)
(* is one atomic action.  Bit masks are sets of bit indices (Bits(n)), so  *)
(* that x & y is \cap, x | y is \cup and x & ~y is \ .                     *)
(***************************************************************************)
EXTENDS Integers, Sequences, FiniteSets, TLC

(* Host (WinSock) error codes named by translate_socket_error. *)
WSA_NOT_ENOUGH_MEMORY == 8
WSAEINTR == 10004
WSAEBADF == 10009
WSAEACCES == 10013
WSAEFAULT == 10014
WSAEINVAL == 10022
WSAEMFILE == 10024
WSAEWOULDBLOCK == 10035
WSAEALREADY == 10037
WSAENOTSOCK == 10038
WSAEDESTADDRREQ == 10039
WSAEMSGSIZE == 10040
WSAEPROTOTYPE == 10041
WSAENOPROTOOPT == 10042
WSAEPROTONOSUPPORT == 10043
WSAESOCKTNOSUPPORT == 10044
WSAEOPNOTSUPP == 10045
WSAEPFNOSUPPORT == 10046
WSAEAFNOSUPPORT == 10047
WSAEADDRINUSE == 10048
WSAEADDRNOTAVAIL == 10049
WSAENETDOWN == 10050
WSAENETUNREACH == 10051
WSAENETRESET == 10052
WSAECONNABORTED == 10053
WSAECONNRESET == 10054
WSAENOBUFS == 10055
WSAEISCONN == 10056
WSAENOTCONN == 10057
WSAETIMEDOUT == 10060
WSAECONNREFUSED == 10061
WSAELOOP == 10062
WSAENAMETOOLONG == 10063
WSAEHOSTDOWN == 10064
WSAEHOSTUNREACH == 10065
WSAENOTEMPTY == 10066
WSAECANCELLED == 10103

(* Guest (Linux) error numbers. *)
EINTR == 4
EIO == 5
EBADF == 9
EWOULDBLOCK == 11
ENOMEM == 12
EACCES == 13
EFAULT == 14
EINVAL == 22
ENFILE == 23
EMFILE == 24
ENAMETOOLONG == 36
ENOTEMPTY == 39
ELOOP == 40
ENOTSOCK == 88
EDESTADDRREQ == 89
EMSGSIZE == 90
EPROTOTYPE == 91
ENOPROTOOPT == 92
EPROTONOSUPPORT == 93
EOPNOTSUPP == 95
EAFNOSUPPORT == 97
EADDRINUSE == 98
EADDRNOTAVAIL == 99
ENETDOWN == 100
ENETUNREACH == 101
ENETRESET == 102
ECONNABORTED == 103
ECONNRESET == 104
ENOBUFS == 105
EISCONN == 106
ENOTCONN == 107
ETIMEDOUT == 110
ECONNREFUSED == 111
EHOSTUNREACH == 113
EALREADY == 114
EINPROGRESS == 115
ECANCELED == 125

(* Error Translator: the switch of translate_socket_error, {} where no  *)
(* case matches.                                                        *)
socket_error_table(error) ==
  CASE error = WSA_NOT_ENOUGH_MEMORY -> {-ENOMEM}
    [] error = WSAEINTR -> {-EINTR}
    [] error = WSAEBADF -> {-EBADF}
    [] error = WSAEACCES -> {-EACCES}
    [] error = WSAEFAULT -> {-EFAULT}
    [] error = WSAEINVAL -> {-EINVAL}
    [] error = WSAEMFILE -> {-EMFILE}
    [] error = WSAEWOULDBLOCK -> {-EWOULDBLOCK}
    [] error = WSAEALREADY -> {-EALREADY}
    [] error = WSAENOTSOCK -> {-ENOTSOCK}
    [] error = WSAEDESTADDRREQ -> {-EDESTADDRREQ}
    [] error = WSAEMSGSIZE -> {-EMSGSIZE}
    [] error = WSAEPROTOTYPE -> {-EPROTOTYPE}
    [] error = WSAENOPROTOOPT -> {-ENOPROTOOPT}
    [] error = WSAEPROTONOSUPPORT -> {-EPROTONOSUPPORT}
    [] error = WSAESOCKTNOSUPPORT -> {-EPROTONOSUPPORT}
    [] error = WSAEOPNOTSUPP -> {-EOPNOTSUPP}
    [] error = WSAEPFNOSUPPORT -> {-EAFNOSUPPORT}
    [] error = WSAEAFNOSUPPORT -> {-EAFNOSUPPORT}
    [] error = WSAEADDRINUSE -> {-EADDRINUSE}
    [] error = WSAEADDRNOTAVAIL -> {-EADDRNOTAVAIL}
    [] error = WSAENETDOWN -> {-ENETDOWN}
    [] error = WSAENETUNREACH -> {-ENETUNREACH}
    [] error = WSAENETRESET -> {-ENETRESET}
    [] error = WSAECONNABORTED -> {-ECONNABORTED}
    [] error = WSAECONNRESET -> {-ECONNRESET}
    [] error = WSAENOBUFS -> {-ENOBUFS}
    [] error = WSAEISCONN -> {-EISCONN}
    [] error = WSAENOTCONN -> {-ENOTCONN}
    [] error = WSAETIMEDOUT -> {-ETIMEDOUT}
    [] error = WSAECONNREFUSED -> {-ECONNREFUSED}
    [] error = WSAELOOP -> {-ELOOP}
    [] error = WSAENAMETOOLONG -> {-ENAMETOOLONG}
    [] error = WSAEHOSTDOWN -> {-ETIMEDOUT}
    [] error = WSAEHOSTUNREACH -> {-EHOSTUNREACH}
    [] error = WSAENOTEMPTY -> {-ENOTEMPTY}
    [] error = WSAECANCELLED -> {-ECANCELED}
    [] OTHER -> {}

(* A translator whose switch lacks the WSAEHOSTDOWN case. *)
translate_without_hostdown(error) ==
  IF socket_error_table(error) = {} \/ error = WSAEHOSTDOWN
  THEN [ret |-> -EIO, log |-> {error}]
  ELSE [ret |-> CHOOSE r \in socket_error_table(error) : TRUE, log |-> {}]

(* translate_socket_error: ret is the guest code returned, log the host *)
(* codes it logged as unhandled (the default branch).                   *)
translate_socket_error(error) ==
  IF socket_error_table(error) = {}
  THEN [ret |-> -EIO, log |-> {error}]
  ELSE [ret |-> CHOOSE r \in socket_error_table(error) : TRUE, log |-> {}]

(* ---------------------------------------------------------------------- *)
(* Bit masks                                                              *)
(* ---------------------------------------------------------------------- *)
Bits(n) == {b \in 0..19 : (n \div (2^b)) % 2 = 1}

FD_READ == Bits(1)
FD_WRITE == Bits(2)
FD_ACCEPT == Bits(8)
FD_CONNECT == Bits(16)
FD_CLOSE == Bits(32)
O_NONBLOCK == Bits(2048)
LINUX_MSG_PEEK == Bits(2)
LINUX_MSG_DONTWAIT == Bits(64)
LINUX_POLLIN == Bits(1)
LINUX_POLLOUT == Bits(4)

LINUX_SOCK_TYPE_MASK == 15
LINUX_AF_UNSPEC == 0
LINUX_AF_UNIX == 1
LINUX_AF_INET == 2
LINUX_AF_INET6 == 10
LINUX_SOCK_STREAM == 1
LINUX_SOCK_DGRAM == 2
LINUX_SOCK_RAW == 3
LINUX_SOCK_RDM == 4
LINUX_SOCK_SEQPACKET == 5

(* ---------------------------------------------------------------------- *)
(* Bounds of the model                                                    *)
(* ---------------------------------------------------------------------- *)
MaxHandles == 2   \* native handles the host can have open at once
MaxBuf == 2       \* bytes the host receive buffer holds
MaxVlen == 2      \* longest sendmmsg vector

Handles == 1..MaxHandles
Bytes == {7, 9}

(* ---------------------------------------------------------------------- *)
(* State                                                                  *)
(* ---------------------------------------------------------------------- *)
VARIABLES
  socket_inited, \* static int socket_inited
  wsa,           \* host: WSAStartup successes, WSACleanup calls, a failed WSAStartup
  files,         \* descriptor table: fd -> struct file (socket_file for sockets)
  liveSockets,   \* native SOCKETs currently open in the host
  liveEvents,    \* event objects currently open in the host
  staleRelease,  \* a closesocket/CloseHandle was issued on a handle not open
  netEvents,     \* host: network events recorded since the last enumeration
  netConnErr,    \* host: iErrorCode[FD_CONNECT_BIT] of the recorded events
  rcvBuf,        \* host: bytes buffered for receive
  sndFull,       \* host: the send buffer has no room
  connState,     \* host: "unconnected", "connecting", "connected", "peer_closed"
  pc,            \* position of the guest thread
  op,            \* the syscall being (or last) executed, with its arguments
  ret,           \* value returned by the last completed syscall
  lastError,     \* WSAGetLastError() of the guest thread
  log            \* host codes logged as unhandled by the last syscall

vars == <<socket_inited, wsa, files, liveSockets, liveEvents, staleRelease, netEvents,
          netConnErr, rcvBuf, sndFull, connState, pc, op, ret, lastError, log>>

hostvars == <<netEvents, netConnErr, rcvBuf, sndFull, connState>>
handlevars == <<liveSockets, liveEvents, staleRelease>>

(* The descriptor table has two slots: fd 0 is an open regular file, fd 1  *)
(* is free or holds the socket.                                            *)
Fds == 0..1

socket_ops == "socket_ops"

SockFds == {fd \in DOMAIN files : files[fd].op_vtable = socket_ops}
HasSock == SockFds /= {}
SockFd == CHOOSE fd \in SockFds : TRUE
F == files[SockFd]

Init ==
  /\ socket_inited = FALSE
  /\ wsa = [startups |-> 0, cleanups |-> 0, failed |-> FALSE]
  /\ files = (0 :> [op_vtable |-> "file_ops", ref |-> 1])
  /\ liveSockets = {}
  /\ liveEvents = {}
  /\ staleRelease = FALSE
  /\ netEvents = {}
  /\ netConnErr = 0
  /\ rcvBuf = <<>>
  /\ sndFull = FALSE
  /\ connState = "unconnected"
  /\ pc = "idle"
  /\ op = [name |-> "none"]
  /\ ret = 0
  /\ lastError = 0
  /\ log = {}

(* ---------------------------------------------------------------------- *)
(* Host (WinSock) primitives                                              *)
(* ---------------------------------------------------------------------- *)

(* The classes WSAEventSelect registers: only these are recorded and      *)
(* signal the event object.                                               *)
init_socket_event_mask == FD_READ \cup FD_WRITE \cup FD_ACCEPT \cup FD_CONNECT

(* The host records network events `classes` on the socket. *)
Post(classes) == netEvents \cup (classes \cap init_socket_event_mask)

(* The manual-reset event object is signaled from the first recorded      *)
(* event until WSAEnumNetworkEvents resets it.                            *)
Signaled == netEvents /= {}

(* socket()/CreateEventW hand out the lowest handle not in use. *)
FreeHandles == Handles \ (liveSockets \cup liveEvents)
NewHandle == CHOOSE h \in FreeHandles : \A g \in FreeHandles : h <= g

HandleState == [sockets |-> liveSockets, events |-> liveEvents, stale |-> staleRelease]

closesocket(hs, s) ==
  [hs EXCEPT !.sockets = @ \ {s}, !.stale = @ \/ s \notin hs.sockets]

CloseHandle(hs, h) ==
  [hs EXCEPT !.events = @ \ {h}, !.stale = @ \/ h \notin hs.events]

SetHandles(hs) ==
  /\ liveSockets' = hs.sockets
  /\ liveEvents' = hs.events
  /\ staleRelease' = hs.stale

ResetHost ==
  /\ netEvents' = {}
  /\ netConnErr' = 0
  /\ rcvBuf' = <<>>
  /\ sndFull' = FALSE
  /\ connState' = "unconnected"

(* ---------------------------------------------------------------------- *)
(* Readiness engine                                                       *)
(* ---------------------------------------------------------------------- *)

(* An update that clears the connect-completed bit when it reports the    *)
(* connect error but leaves the captured error in place.                  *)
socket_update_events_keep_error(file, lNetworkEvents, iErrorCode, error_report_events) ==
  LET folded == file.events \cup
                  (lNetworkEvents \cap
                     (FD_READ \cup FD_WRITE \cup FD_ACCEPT \cup FD_CONNECT \cup FD_CLOSE))
      cerr == IF lNetworkEvents \cap FD_CONNECT /= {} THEN iErrorCode
              ELSE file.connect_error
      report == (error_report_events \cap folded \cap FD_CONNECT) /= {}
  IN [e |-> folded,
      report |-> report,
      error |-> cerr,
      file |-> IF report
               THEN [file EXCEPT !.events = folded \ FD_CONNECT, !.connect_error = cerr]
               ELSE [file EXCEPT !.events = folded, !.connect_error = cerr]]

(* An update that replaces the bitmask by the enumerated events instead   *)
(* of ORing them in.                                                      *)
socket_update_events_overwrite(file, lNetworkEvents, iErrorCode, error_report_events) ==
  LET folded == lNetworkEvents \cap
                  (FD_READ \cup FD_WRITE \cup FD_ACCEPT \cup FD_CONNECT \cup FD_CLOSE)
      cerr == IF lNetworkEvents \cap FD_CONNECT /= {} THEN iErrorCode
              ELSE file.connect_error
      report == (error_report_events \cap folded \cap FD_CONNECT) /= {}
  IN [e |-> folded,
      report |-> report,
      error |-> cerr,
      file |-> IF report
               THEN [file EXCEPT !.events = folded \ FD_CONNECT, !.connect_error = 0]
               ELSE [file EXCEPT !.events = folded, !.connect_error = cerr]]

(* socket_update_events on the enumerated events (lNetworkEvents,         *)
(* iErrorCode[FD_CONNECT_BIT]): e is the returned mask, file the resource *)
(* afterwards, report whether WSASetLastError(error) was called.          *)
socket_update_events(file, lNetworkEvents, iErrorCode, error_report_events) ==
  LET folded == file.events \cup
                  (lNetworkEvents \cap
                     (FD_READ \cup FD_WRITE \cup FD_ACCEPT \cup FD_CONNECT \cup FD_CLOSE))
      cerr == IF lNetworkEvents \cap FD_CONNECT /= {} THEN iErrorCode
              ELSE file.connect_error
      report == (error_report_events \cap folded \cap FD_CONNECT) /= {}
  IN [e |-> folded,
      report |-> report,
      error |-> cerr,
      file |-> IF report
               THEN [file EXCEPT !.events = folded \ FD_CONNECT, !.connect_error = 0]
               ELSE [file EXCEPT !.events = folded, !.connect_error = cerr]]

(* WSAEnumNetworkEvents clears the host's record and resets the event. *)
EnumReset ==
  /\ netEvents' = {}
  /\ netConnErr' = 0

RECURSIVE MaskValue(_)
MaskValue(S) ==
  IF S = {} THEN 0
  ELSE LET b == CHOOSE x \in S : TRUE IN 2^b + MaskValue(S \ {b})

(* socket_get_poll_status: the file_ops poll-status query. *)
socket_get_poll_status ==
  /\ pc = "idle"
  /\ HasSock
  /\ LET u == socket_update_events(F, netEvents, netConnErr, {})
         pollin == IF u.e \cap FD_READ /= {} THEN LINUX_POLLIN ELSE {}
         pollout == IF u.e \cap FD_WRITE /= {} THEN LINUX_POLLOUT ELSE {}
     IN /\ files' = [files EXCEPT ![SockFd] = u.file]
        /\ lastError' = IF u.report THEN u.error ELSE 0
        /\ op' = [name |-> "get_poll_status", e |-> u.e]
        /\ ret' = MaskValue(pollin \cup pollout)
  /\ EnumReset
  /\ log' = {}
  /\ UNCHANGED <<socket_inited, wsa, handlevars, rcvBuf, sndFull, connState, pc>>

(* socket_get_poll_handle: the file_ops poll-handle query. *)
socket_get_poll_handle ==
  /\ pc = "idle"
  /\ HasSock
  /\ op' = [name |-> "get_poll_handle", poll_events |-> LINUX_POLLIN \cup LINUX_POLLOUT]
  /\ ret' = F.event_handle
  /\ log' = {}
  /\ lastError' = 0
  /\ UNCHANGED <<socket_inited, wsa, files, handlevars, hostvars, pc>>

(* A decision that takes any ready class for the wanted one. *)
wait_decision_any_class(file, e, event, flags) ==
  IF e /= {} THEN "ready"
  ELSE IF (file.flags \cap O_NONBLOCK) /= {} \/ (flags \cap LINUX_MSG_DONTWAIT) /= {}
       THEN "wouldblock"
  ELSE "block"

(* The decision socket_wait_event takes after one update. *)
wait_decision(file, e, event, flags) ==
  IF e \cap event /= {} THEN "ready"
  ELSE IF (file.flags \cap O_NONBLOCK) /= {} \/ (flags \cap LINUX_MSG_DONTWAIT) /= {}
       THEN "wouldblock"
  ELSE "block"

(* ---------------------------------------------------------------------- *)
(* Lifecycle: socket, close                                               *)
(* ---------------------------------------------------------------------- *)
win32_af(domain) ==
  CASE domain = LINUX_AF_UNSPEC -> {0}
    [] domain = LINUX_AF_UNIX -> {1}
    [] domain = LINUX_AF_INET -> {2}
    [] domain = LINUX_AF_INET6 -> {23}
    [] OTHER -> {}

win32_type(type) ==
  LET kind == type % (LINUX_SOCK_TYPE_MASK + 1)
  IN CASE kind = LINUX_SOCK_DGRAM -> {2}
       [] kind = LINUX_SOCK_STREAM -> {1}
       [] kind = LINUX_SOCK_RAW -> {3}
       [] kind = LINUX_SOCK_RDM -> {4}
       [] kind = LINUX_SOCK_SEQPACKET -> {5}
       [] OTHER -> {}

(* socket_close: the file_ops close, run when the reference count is 0. *)
socket_close(hs, file) == CloseHandle(closesocket(hs, file.socket), file.event_handle)

(* vfs_release of the descriptor table: drops one reference and closes    *)
(* the file when none is left.                                            *)
vfs_release(hs, file) ==
  IF file.ref - 1 = 0 THEN socket_close(hs, file) ELSE hs

(* vfs_store_file of the descriptor table: the lowest free descriptor, or *)
(* -EMFILE when the table is full.                                        *)
vfs_store_file ==
  LET free == Fds \ DOMAIN files
  IN IF free = {} THEN -EMFILE
     ELSE CHOOSE fd \in free : \A g \in free : fd <= g

(* init_socket_event: the handles open afterwards and the handle returned *)
(* ({} for NULL).  CreateEventW or WSAEventSelect may fail.               *)
init_socket_event(hs, outcome) ==
  LET handle == CHOOSE h \in Handles : h \notin hs.events /\
                   \A g \in Handles : g \notin hs.events => h <= g
      created == [hs EXCEPT !.events = @ \cup {handle}]
  IN CASE outcome = "CreateEventW fails" -> [hs |-> hs, handle |-> {}]
       [] outcome = "WSAEventSelect fails" -> [hs |-> CloseHandle(created, handle), handle |-> {}]
       [] OTHER -> [hs |-> created, handle |-> {handle}]

(* An argument check that looks at the kind and the protocol before the  *)
(* address family.                                                        *)
socket_check_args_kind_first(domain, type, protocol) ==
  IF win32_type(type) = {} THEN -EPROTONOSUPPORT
  ELSE IF protocol /= 0 THEN -EPROTONOSUPPORT
  ELSE IF win32_af(domain) = {} THEN -EAFNOSUPPORT
  ELSE 0

(* sys_socket's translation of its arguments: 0, or the error returned   *)
(* for the first argument that has no Windows counterpart.               *)
socket_check_args(domain, type, protocol) ==
  IF win32_af(domain) = {} THEN -EAFNOSUPPORT
  ELSE IF win32_type(type) = {} THEN -EPROTONOSUPPORT
  ELSE IF protocol /= 0 THEN -EPROTONOSUPPORT
  ELSE 0

(* An event-setup failure path that forgets the native socket. *)
socket_event_failed_leak(hs, sock) == hs

(* sys_socket when init_socket_event returned NULL. *)
socket_event_failed(hs, sock) == closesocket(hs, sock)

(* sys_socket after the argument checks: the native socket, its event     *)
(* object, the socket_file and the descriptor.                            *)
socket_create(type, host, evt) ==
  IF host /= 0 \/ FreeHandles = {}
  THEN LET err == IF host /= 0 THEN host ELSE WSAEMFILE
       IN [ret |-> translate_socket_error(err).ret, log |-> translate_socket_error(err).log,
           error |-> {err}, hs |-> HandleState, store |-> {}]
  ELSE LET sock == NewHandle
           opened == [HandleState EXCEPT !.sockets = @ \cup {sock}]
           ev == init_socket_event(opened, evt)
       IN IF ev.handle = {}
          THEN [ret |-> -ENFILE, log |-> {}, error |-> {},
                hs |-> socket_event_failed(ev.hs, sock), store |-> {}]
          ELSE LET f == [op_vtable |-> socket_ops, ref |-> 1, socket |-> sock,
                         event_handle |-> CHOOSE h \in ev.handle : TRUE,
                         flags |-> IF (Bits(type) \cap O_NONBLOCK) /= {}
                                   THEN O_NONBLOCK ELSE {},
                         events |-> {}, connect_error |-> 0]
                   fd == vfs_store_file
               IN IF fd < 0
                  THEN [ret |-> fd, log |-> {}, error |-> {},
                        hs |-> vfs_release(ev.hs, f), store |-> {}]
                  ELSE [ret |-> fd, log |-> {}, error |-> {}, hs |-> ev.hs, store |-> {f}]

SocketHostOutcomes == {0, WSAENOBUFS}
EventOutcomes == {"ok", "CreateEventW fails", "WSAEventSelect fails"}

(* What WSAStartup() can return. *)
StartupOutcomes == {0, WSAEFAULT}

(* A start-up that calls WSAStartup() on every socket call. *)
socket_ensure_initialized_every_call(inited, w, r) ==
  IF r /= 0
  THEN [exit |-> TRUE, inited |-> inited, wsa |-> [w EXCEPT !.failed = TRUE]]
  ELSE [exit |-> FALSE, inited |-> TRUE, wsa |-> [w EXCEPT !.startups = @ + 1]]

(* socket_ensure_initialized, r being what WSAStartup() returns if it is  *)
(* called: exit when the process is terminated, else the flag and the     *)
(* host's subsystem afterwards.                                           *)
socket_ensure_initialized(inited, w, r) ==
  IF ~inited
  THEN IF r /= 0
       THEN [exit |-> TRUE, inited |-> inited, wsa |-> [w EXCEPT !.failed = TRUE]]
       ELSE [exit |-> FALSE, inited |-> TRUE, wsa |-> [w EXCEPT !.startups = @ + 1]]
  ELSE [exit |-> FALSE, inited |-> inited, wsa |-> w]

sys_socket(domain, type, protocol) ==
  /\ pc = "idle"
  /\ op' = [name |-> "socket", domain |-> domain, type |-> type, protocol |-> protocol]
  /\ \E r \in StartupOutcomes, host \in SocketHostOutcomes, evt \in EventOutcomes :
       IF socket_ensure_initialized(socket_inited, wsa, r).exit
       THEN \* WSAStartup failed: ExitProcess(1)
            /\ pc' = "exited"
            /\ wsa' = socket_ensure_initialized(socket_inited, wsa, r).wsa
            /\ log' = {}
            /\ lastError' = 0
            /\ UNCHANGED <<socket_inited, files, handlevars, hostvars, ret>>
       ELSE
         /\ socket_inited' = socket_ensure_initialized(socket_inited, wsa, r).inited
         /\ wsa' = socket_ensure_initialized(socket_inited, wsa, r).wsa
         /\ pc' = "idle"
         /\ IF socket_check_args(domain, type, protocol) /= 0
            THEN /\ ret' = socket_check_args(domain, type, protocol)
                 /\ log' = {}
                 /\ lastError' = 0
                 /\ UNCHANGED <<files, handlevars, hostvars>>
            ELSE LET c == socket_create(type, host, evt)
                 IN /\ ret' = c.ret
                    /\ log' = c.log
                    /\ lastError' = IF c.error = {} THEN 0
                                    ELSE CHOOSE x \in c.error : TRUE
                    /\ SetHandles(c.hs)
                    /\ IF c.store = {}
                       THEN UNCHANGED <<files, hostvars>>
                       ELSE /\ files' = (c.ret :> (CHOOSE x \in c.store : TRUE)) @@ files
                            /\ ResetHost

(* socket_shutdown, called once when the process shuts down. *)
socket_shutdown ==
  /\ pc = "idle"
  /\ pc' = "shutdown"
  /\ wsa' = IF socket_inited THEN [wsa EXCEPT !.cleanups = @ + 1] ELSE wsa
  /\ op' = [name |-> "socket_shutdown"]
  /\ UNCHANGED <<socket_inited, files, handlevars, hostvars, ret, lastError, log>>

(* close(fd) on the socket's descriptor: the descriptor table removes the *)
(* entry and releases its reference.                                      *)
vfs_close ==
  /\ pc = "idle"
  /\ HasSock
  /\ op' = [name |-> "close", fd |-> SockFd]
  /\ ret' = 0
  /\ log' = {}
  /\ SetHandles(vfs_release(HandleState, F))
  /\ files' = [fd \in DOMAIN files \ {SockFd} |-> files[fd]]
  /\ ResetHost
  /\ lastError' = 0
  /\ UNCHANGED <<socket_inited, wsa, pc>>

(* ---------------------------------------------------------------------- *)
(* Host environment                                                       *)
(* ---------------------------------------------------------------------- *)
HostDataArrives(b) ==
  /\ pc /= "exited"
  /\ HasSock
  /\ connState = "connected"
  /\ Len(rcvBuf) < MaxBuf
  /\ rcvBuf' = Append(rcvBuf, b)
  /\ netEvents' = Post(FD_READ)
  /\ UNCHANGED <<socket_inited, wsa, files, handlevars, netConnErr, sndFull, connState,
                 pc, op, ret, lastError, log>>

HostSendSpace ==
  /\ pc /= "exited"
  /\ HasSock
  /\ connState = "connected"
  /\ sndFull
  /\ sndFull' = FALSE
  /\ netEvents' = Post(FD_WRITE)
  /\ UNCHANGED <<socket_inited, wsa, files, handlevars, netConnErr, rcvBuf, connState,
                 pc, op, ret, lastError, log>>

ConnectCompletions == {0, WSAECONNREFUSED}

HostConnectDone(err) ==
  /\ pc /= "exited"
  /\ HasSock
  /\ connState = "connecting"
  /\ connState' = IF err = 0 THEN "connected" ELSE "unconnected"
  /\ netEvents' = Post(IF err = 0 THEN FD_CONNECT \cup FD_WRITE ELSE FD_CONNECT)
  /\ netConnErr' = err
  /\ UNCHANGED <<socket_inited, wsa, files, handlevars, rcvBuf, sndFull,
                 pc, op, ret, lastError, log>>

(* The peer closes the connection: the host has an FD_CLOSE event for the *)
(* socket.                                                                *)
HostPeerCloses ==
  /\ pc /= "exited"
  /\ HasSock
  /\ connState = "connected"
  /\ connState' = "peer_closed"
  /\ netEvents' = Post(FD_CLOSE)
  /\ UNCHANGED <<socket_inited, wsa, files, handlevars, netConnErr, rcvBuf, sndFull,
                 pc, op, ret, lastError, log>>

(* ---------------------------------------------------------------------- *)
(* Descriptor resolution and guest-memory validation                      *)
(* ---------------------------------------------------------------------- *)
get_sockfd(fd) ==
  IF fd \notin DOMAIN files THEN -EBADF
  ELSE IF files[fd].op_vtable /= socket_ops THEN -ENOTSOCK
  ELSE 0

(* A message check that does not look at the buffer segments. *)
mm_check_read_msghdr_no_segments(msg) ==
  /\ msg.hdr_ok
  /\ (Len(msg.iov) /= 0 => msg.iov_ok)
  /\ (msg.controllen /= 0 => msg.control_ok)

(* A guest range is given by what the memory validator answers for it. *)
mm_check_read_msghdr(msg) ==
  /\ msg.hdr_ok
  /\ (Len(msg.iov) /= 0 => msg.iov_ok)
  /\ (msg.controllen /= 0 => msg.control_ok)
  /\ \A i \in 1..Len(msg.iov) : msg.iov[i].ok

Return(value) ==
  /\ pc' = "idle"
  /\ ret' = value

(* ---------------------------------------------------------------------- *)
(* connect                                                                *)
(* ---------------------------------------------------------------------- *)
HostConnectOutcomes ==
  CASE connState = "unconnected" -> {0, WSAEWOULDBLOCK, WSAENETUNREACH}
    [] connState = "connecting" -> {WSAEALREADY}
    [] OTHER -> {WSAEISCONN}

(* The value sys_connect returns after socket_wait_event on FD_CONNECT. *)
connect_result(error) == error

sys_connect(sockfd, addr_ok) ==
  /\ pc = "idle"
  /\ IF ~addr_ok
     THEN /\ Return(-EFAULT)
          /\ op' = [name |-> "connect", fd |-> sockfd, addr_ok |-> addr_ok, err |-> 0,
                    event |-> FD_CONNECT, flags |-> {}]
          /\ log' = {}
          /\ lastError' = 0
          /\ UNCHANGED <<files, hostvars>>
     ELSE IF get_sockfd(sockfd) /= 0
     THEN /\ Return(get_sockfd(sockfd))
          /\ op' = [name |-> "connect", fd |-> sockfd, addr_ok |-> addr_ok, err |-> 0,
                    event |-> FD_CONNECT, flags |-> {}]
          /\ log' = {}
          /\ lastError' = 0
          /\ UNCHANGED <<files, hostvars>>
     ELSE \E err \in HostConnectOutcomes :
          /\ op' = [name |-> "connect", fd |-> sockfd, addr_ok |-> addr_ok, err |-> err,
                    event |-> FD_CONNECT, flags |-> {}]
          /\ IF err = 0
             THEN /\ Return(0)
                  /\ connState' = "connected"
                  /\ netEvents' = Post(FD_WRITE)
                  /\ log' = {}
                  /\ lastError' = 0
                  /\ UNCHANGED <<files, netConnErr, rcvBuf, sndFull>>
             ELSE IF err /= WSAEWOULDBLOCK
             THEN /\ Return(translate_socket_error(err).ret)
                  /\ log' = translate_socket_error(err).log
                  /\ lastError' = err
                  /\ UNCHANGED <<files, hostvars>>
             ELSE /\ connState' = "connecting"
                  /\ lastError' = err
                  /\ log' = {}
                  /\ IF (files[sockfd].flags \cap O_NONBLOCK) /= {}
                     THEN Return(-EINPROGRESS)
                     ELSE pc' = "wait" /\ UNCHANGED ret
                  /\ UNCHANGED <<files, netEvents, netConnErr, rcvBuf, sndFull>>
  /\ UNCHANGED <<socket_inited, wsa, handlevars>>

(* ---------------------------------------------------------------------- *)
(* sendmmsg bookkeeping                                                   *)
(* ---------------------------------------------------------------------- *)
RECURSIVE TotalLen(_)
TotalLen(iov) ==
  IF iov = <<>> THEN 0 ELSE iov[1].len + TotalLen(Tail(iov))

(* The body of sys_sendmmsg's loop after socket_sendmsg returned len for  *)
(* message o.i: either the syscall returns (done) or the loop goes on     *)
(* with the next message.                                                 *)
sendmmsg_next(o, len) ==
  LET i == o.i
      vlen == Len(o.vec)
      total == TotalLen(o.vec[i + 1].iov)
      rec == [o EXCEPT !.msg_len = Append(@, len)]
  IN IF i = 0 /\ len < 0 THEN [done |-> TRUE, ret |-> len, op |-> o]
     ELSE IF i = 0 /\ len = 0 THEN [done |-> TRUE, ret |-> -EWOULDBLOCK, op |-> o]
     ELSE IF len <= 0 THEN [done |-> TRUE, ret |-> i, op |-> o]
     ELSE IF len < total THEN [done |-> TRUE, ret |-> i + 1, op |-> rec]
     ELSE IF i + 1 < vlen THEN [done |-> FALSE, ret |-> 0, op |-> [rec EXCEPT !.i = i + 1]]
     ELSE [done |-> TRUE, ret |-> vlen, op |-> rec]

(* What the caller of socket_sendmsg does with its result r. *)
AfterSendmsg(o, r) ==
  IF o.name = "sendmmsg"
  THEN LET n == sendmmsg_next(o, r)
       IN /\ op' = n.op
          /\ IF n.done THEN Return(n.ret) ELSE pc' = "wait" /\ UNCHANGED ret
  ELSE /\ op' = o
       /\ Return(r)

(* ---------------------------------------------------------------------- *)
(* socket_wait_event: one iteration of its loop                           *)
(* ---------------------------------------------------------------------- *)
socket_wait_event ==
  /\ pc \in {"wait", "retry", "woken"}
  /\ LET u == socket_update_events(F, netEvents, netConnErr, op.event)
         d == wait_decision(u.file, u.e, op.event, op.flags)
         error == IF u.report THEN u.error ELSE lastError
     IN /\ files' = [files EXCEPT ![SockFd] = u.file]
        /\ lastError' = error
        /\ CASE d = "block" -> pc' = "blocked" /\ UNCHANGED <<op, ret>>
             [] d /= "block" /\ op.name = "connect" ->
                  Return(connect_result(error)) /\ UNCHANGED op
             [] d = "ready" /\ op.name /= "connect" ->
                  pc' = "xfer" /\ UNCHANGED <<op, ret>>
             [] d = "wouldblock" /\ op.name \in {"sendmsg", "sendmmsg"} ->
                  AfterSendmsg(op, -EWOULDBLOCK)
             [] OTHER -> Return(-EWOULDBLOCK) /\ UNCHANGED op
  /\ EnumReset
  /\ UNCHANGED <<socket_inited, wsa, handlevars, rcvBuf, sndFull, connState, log>>

(* WaitForSingleObject(f->event_handle, INFINITE) returns. *)
WaitForSingleObject ==
  /\ pc = "blocked"
  /\ Signaled
  /\ pc' = "woken"
  /\ UNCHANGED <<socket_inited, wsa, files, handlevars, hostvars, op, ret, lastError, log>>

(* ---------------------------------------------------------------------- *)
(* send                                                                   *)
(* ---------------------------------------------------------------------- *)
HostSendErrors == {10058}
HostRecvErrors == {WSAECONNRESET}

(* What sendto()/WSASendMsg() can answer for `total` bytes. *)
HostSendOutcomes(total) ==
  IF connState /= "connected"
  THEN {[kind |-> "err", err |-> WSAENOTCONN, n |-> 0, full |-> sndFull]}
  ELSE {[kind |-> "err", err |-> e, n |-> 0, full |-> sndFull] : e \in HostSendErrors}
       \cup (IF sndFull
             THEN {[kind |-> "wouldblock", err |-> WSAEWOULDBLOCK, n |-> 0, full |-> TRUE]}
             ELSE {[kind |-> "ok", err |-> 0, n |-> n, full |-> full] :
                     n \in (IF total = 0 THEN {0} ELSE 1..total), full \in BOOLEAN})

(* A would-block path of socket_sendto that clears the whole bitmask. *)
sendto_wouldblock_all(file) == [file EXCEPT !.events = {}]

(* The would-block branch of socket_sendto and of socket_sendmsg. *)
sendto_wouldblock(file) == [file EXCEPT !.events = @ \ FD_WRITE]

sendmsg_wouldblock(file) == [file EXCEPT !.flags = @ \ FD_WRITE]

EnterSendto(name, sockfd, valid, len, flags) ==
  /\ pc = "idle"
  /\ op' = [name |-> name, fd |-> sockfd, valid |-> valid, len |-> len, flags |-> flags,
            event |-> FD_WRITE]
  /\ log' = {}
  /\ IF ~valid THEN Return(-EFAULT)
     ELSE IF get_sockfd(sockfd) /= 0 THEN Return(get_sockfd(sockfd))
     ELSE pc' = "wait" /\ UNCHANGED ret
  /\ lastError' = 0
  /\ UNCHANGED <<socket_inited, wsa, files, handlevars, hostvars>>

sys_send(sockfd, buf_ok, len, flags) == EnterSendto("send", sockfd, buf_ok, len, flags)

sys_sendto(sockfd, buf_ok, len, flags, dest_addr) ==
  EnterSendto("sendto", sockfd, buf_ok /\ dest_addr /= "unreadable", len, flags)

(* socket_write: the file_ops write. *)
socket_write(count) ==
  /\ HasSock
  /\ EnterSendto("write", SockFd, TRUE, count, {})

(* The host transfer of socket_sendto and what follows it. *)
socket_sendto ==
  /\ pc = "xfer"
  /\ op.name \in {"send", "sendto", "write"}
  /\ \E h \in HostSendOutcomes(op.len) :
       CASE h.kind = "ok" ->
              /\ Return(h.n)
              /\ sndFull' = h.full
              /\ UNCHANGED <<files, lastError, log>>
         [] h.kind = "wouldblock" ->
              /\ pc' = "retry"
              /\ files' = [files EXCEPT ![SockFd] = sendto_wouldblock(F)]
              /\ lastError' = h.err
              /\ UNCHANGED <<ret, sndFull, log>>
         [] OTHER ->
              /\ Return(translate_socket_error(h.err).ret)
              /\ log' = translate_socket_error(h.err).log
              /\ lastError' = h.err
              /\ UNCHANGED <<files, sndFull>>
  /\ UNCHANGED <<socket_inited, wsa, handlevars, netEvents, netConnErr, rcvBuf, connState, op>>

sys_sendmsg(sockfd, msg, flags) ==
  /\ pc = "idle"
  /\ op' = [name |-> "sendmsg", fd |-> sockfd, vec |-> <<msg>>, i |-> 0, flags |-> flags,
            event |-> FD_WRITE, msg_len |-> <<>>, sent |-> <<>>]
  /\ log' = {}
  /\ IF ~mm_check_read_msghdr(msg) THEN Return(-EFAULT)
     ELSE IF get_sockfd(sockfd) /= 0 THEN Return(get_sockfd(sockfd))
     ELSE pc' = "wait" /\ UNCHANGED ret
  /\ lastError' = 0
  /\ UNCHANGED <<socket_inited, wsa, files, handlevars, hostvars>>

(* A sendmmsg check that validates only the first message up front. *)
sendmmsg_check_first_only(msgvec_ok, msgvec) ==
  /\ msgvec_ok
  /\ Len(msgvec) > 0 => mm_check_read_msghdr(msgvec[1])

(* sys_sendmmsg's validation of the vector and of every message in it. *)
sendmmsg_check(msgvec_ok, msgvec) ==
  /\ msgvec_ok
  /\ \A i \in 1..Len(msgvec) : mm_check_read_msghdr(msgvec[i])

sys_sendmmsg(sockfd, msgvec_ok, msgvec, flags) ==
  /\ pc = "idle"
  /\ op' = [name |-> "sendmmsg", fd |-> sockfd, vec_ok |-> msgvec_ok, vec |-> msgvec,
            i |-> 0, flags |-> flags, event |-> FD_WRITE, msg_len |-> <<>>, sent |-> <<>>]
  /\ log' = {}
  /\ IF ~sendmmsg_check(msgvec_ok, msgvec) THEN Return(-EFAULT)
     ELSE IF get_sockfd(sockfd) /= 0 THEN Return(get_sockfd(sockfd))
     ELSE IF Len(msgvec) = 0 THEN Return(Len(msgvec))
     ELSE pc' = "wait" /\ UNCHANGED ret
  /\ lastError' = 0
  /\ UNCHANGED <<socket_inited, wsa, files, handlevars, hostvars>>

(* The host transfer of socket_sendmsg (WSASendMsg) and what follows it. *)
socket_sendmsg ==
  /\ pc = "xfer"
  /\ op.name \in {"sendmsg", "sendmmsg"}
  /\ \E h \in HostSendOutcomes(TotalLen(op.vec[op.i + 1].iov)) :
       CASE h.kind = "ok" ->
              /\ AfterSendmsg([op EXCEPT !.sent = Append(@, h.n)], h.n)
              /\ sndFull' = h.full
              /\ UNCHANGED <<files, lastError, log>>
         [] h.kind = "wouldblock" ->
              /\ pc' = "retry"
              /\ files' = [files EXCEPT ![SockFd] = sendmsg_wouldblock(F)]
              /\ lastError' = h.err
              /\ UNCHANGED <<op, ret, sndFull, log>>
         [] OTHER ->
              /\ AfterSendmsg(op, translate_socket_error(h.err).ret)
              /\ log' = translate_socket_error(h.err).log
              /\ lastError' = h.err
              /\ UNCHANGED <<files, sndFull>>
  /\ UNCHANGED <<socket_inited, wsa, handlevars, netEvents, netConnErr, rcvBuf, connState>>

(* ---------------------------------------------------------------------- *)
(* receive                                                                *)
(* ---------------------------------------------------------------------- *)
Min(a, b) == IF a < b THEN a ELSE b

(* What recvfrom() can answer for a buffer of len bytes. *)
HostRecvOutcomes(len) ==
  IF connState /= "connected"
  THEN {[kind |-> "err", err |-> WSAENOTCONN, data |-> <<>>]}
  ELSE {[kind |-> "err", err |-> e, data |-> <<>>] : e \in HostRecvErrors}
       \cup (IF rcvBuf = <<>>
             THEN {[kind |-> "wouldblock", err |-> WSAEWOULDBLOCK, data |-> <<>>]}
             ELSE {[kind |-> "ok", err |-> 0, data |-> SubSeq(rcvBuf, 1, Min(len, Len(rcvBuf)))]})

(* A receive that never clears the read-ready bit. *)
recvfrom_claim_never(file, flags) == file

(* A receive that clears the read-ready bit whatever the flags. *)
recvfrom_claim_always(file, flags) == [file EXCEPT !.events = @ \ FD_READ]

(* socket_recvfrom claims the read-ready bit before the transfer unless   *)
(* the caller only peeks.                                                 *)
recvfrom_claim(file, flags) ==
  IF (flags \cap LINUX_MSG_PEEK) = {} THEN [file EXCEPT !.events = @ \ FD_READ] ELSE file

EnterRecvfrom(name, sockfd, valid, len, flags) ==
  /\ pc = "idle"
  /\ op' = [name |-> name, fd |-> sockfd, valid |-> valid, len |-> len, flags |-> flags,
            event |-> FD_READ, data |-> <<>>]
  /\ log' = {}
  /\ IF ~valid THEN Return(-EFAULT)
     ELSE IF get_sockfd(sockfd) /= 0 THEN Return(get_sockfd(sockfd))
     ELSE pc' = "wait" /\ UNCHANGED ret
  /\ lastError' = 0
  /\ UNCHANGED <<socket_inited, wsa, files, handlevars, hostvars>>

sys_recv(sockfd, buf_ok, len, flags) == EnterRecvfrom("recv", sockfd, buf_ok, len, flags)

sys_recvfrom(sockfd, buf_ok, len, flags, src_addr) ==
  EnterRecvfrom("recvfrom", sockfd, buf_ok /\ src_addr /= "unwritable", len, flags)

(* socket_read: the file_ops read. *)
socket_read(count) ==
  /\ HasSock
  /\ EnterRecvfrom("read", SockFd, TRUE, count, {})

(* The host transfer of socket_recvfrom and what follows it. *)
(* socket_recvfrom between the return of socket_wait_event and the call   *)
(* of recvfrom().                                                         *)
socket_recvfrom_claim ==
  /\ pc = "xfer"
  /\ op.name \in {"recv", "recvfrom", "read"}
  /\ files' = [files EXCEPT ![SockFd] = recvfrom_claim(F, op.flags)]
  /\ pc' = "host"
  /\ UNCHANGED <<socket_inited, wsa, handlevars, hostvars, op, ret, lastError, log>>

(* socket_recvfrom: the call of recvfrom() and what follows it. *)
socket_recvfrom ==
  /\ pc = "host"
  /\ op.name \in {"recv", "recvfrom", "read"}
  /\ UNCHANGED files
  /\ \E h \in HostRecvOutcomes(op.len) :
       CASE h.kind = "ok" ->
              LET rest == IF (op.flags \cap LINUX_MSG_PEEK) = {}
                          THEN SubSeq(rcvBuf, Len(h.data) + 1, Len(rcvBuf))
                          ELSE rcvBuf
              IN /\ Return(Len(h.data))
                 /\ op' = [op EXCEPT !.data = h.data]
                 /\ rcvBuf' = rest
                 /\ netEvents' = IF rest /= <<>> THEN Post(FD_READ) ELSE netEvents
                 /\ UNCHANGED <<lastError, log>>
         [] h.kind = "wouldblock" ->
              /\ pc' = "retry"
              /\ lastError' = h.err
              /\ UNCHANGED <<op, ret, rcvBuf, netEvents, log>>
         [] OTHER ->
              \* recvfrom() re-enables FD_READ even when it fails: the host
              \* records the event again while data is still buffered.
              /\ Return(translate_socket_error(h.err).ret)
              /\ log' = translate_socket_error(h.err).log
              /\ lastError' = h.err
              /\ netEvents' = IF rcvBuf /= <<>> THEN Post(FD_READ) ELSE netEvents
              /\ UNCHANGED <<op, rcvBuf>>
  /\ UNCHANGED <<socket_inited, wsa, handlevars, netConnErr, sndFull, connState>>

(* ---------------------------------------------------------------------- *)
(* Name queries                                                           *)
(* ---------------------------------------------------------------------- *)
NameQuery(name, sockfd, addrlen_ok, addr_ok, outcomes) ==
  /\ pc = "idle"
  /\ op' = [name |-> name, fd |-> sockfd, addrlen_ok |-> addrlen_ok, addr_ok |-> addr_ok]
  /\ IF ~addrlen_ok \/ ~addr_ok
     THEN Return(-EFAULT) /\ log' = {} /\ lastError' = 0
     ELSE IF get_sockfd(sockfd) /= 0
     THEN Return(get_sockfd(sockfd)) /\ log' = {} /\ lastError' = 0
     ELSE \E err \in outcomes :
            IF err = 0
            THEN Return(0) /\ log' = {} /\ lastError' = 0
            ELSE /\ Return(translate_socket_error(err).ret)
                 /\ log' = translate_socket_error(err).log
                 /\ lastError' = err
  /\ UNCHANGED <<socket_inited, wsa, files, handlevars, hostvars>>

sys_getsockname(sockfd, addrlen_ok, addr_ok) ==
  NameQuery("getsockname", sockfd, addrlen_ok, addr_ok,
            IF connState = "unconnected" THEN {WSAEINVAL} ELSE {0})

sys_getpeername(sockfd, addrlen_ok, addr_ok) ==
  NameQuery("getpeername", sockfd, addrlen_ok, addr_ok,
            IF connState = "connected" THEN {0} ELSE {WSAENOTCONN})

(* ---------------------------------------------------------------------- *)
(* socketcall                                                             *)
(* ---------------------------------------------------------------------- *)
SYS_SOCKET == 1
SYS_CONNECT == 3
SYS_GETSOCKNAME == 6
SYS_GETPEERNAME == 7
SYS_SEND == 9
SYS_RECV == 10
SYS_SENDTO == 11
SYS_RECVFROM == 12
SYS_SENDMSG == 16
SYS_SENDMMSG == 20

(* AL(x): x argument words of sizeof(uintptr_t) = 4 bytes. *)
AL(x) == x * 4

(* nargs[call], for call = 0..20. *)
nargs ==
  <<AL(0), AL(3), AL(3), AL(3), AL(2), AL(3),
    AL(3), AL(3), AL(4), AL(4), AL(4), AL(6),
    AL(6), AL(2), AL(5), AL(5), AL(3), AL(3),
    AL(4), AL(5), AL(4)>>

(* mm_check_read(args, size) on an argument vector of which `readable`   *)
(* bytes are accessible.                                                  *)
mm_check_read_args(readable, size) == size <= readable

SocketcallReturn(call, readable, value) ==
  /\ pc = "idle"
  /\ op' = [name |-> "socketcall", call |-> call, readable |-> readable]
  /\ Return(value)
  /\ log' = {}
  /\ lastError' = 0
  /\ UNCHANGED <<socket_inited, wsa, files, handlevars, hostvars>>

(* A socketcall check that does not validate the argument vector. *)
socketcall_check_no_args(call, readable) ==
  IF call < 1 \/ call > SYS_SENDMMSG THEN -EINVAL ELSE 0

(* sys_socketcall's checks of the call number and of the argument       *)
(* vector: 0, or the error returned.                                      *)
socketcall_check(call, readable) ==
  IF call < 1 \/ call > SYS_SENDMMSG THEN -EINVAL
  ELSE IF ~mm_check_read_args(readable, nargs[call + 1]) THEN -EFAULT
  ELSE 0

(* a: the argument words as the callee interprets them. *)
sys_socketcall(call, readable, a) ==
  IF socketcall_check(call, readable) /= 0
  THEN SocketcallReturn(call, readable, socketcall_check(call, readable))
  ELSE CASE call = SYS_SOCKET -> sys_socket(a.domain, a.type, a.protocol)
         [] call = SYS_CONNECT -> sys_connect(a.fd, a.ok)
         [] call = SYS_GETSOCKNAME -> sys_getsockname(a.fd, a.ok, a.ok)
         [] call = SYS_GETPEERNAME -> sys_getpeername(a.fd, a.ok, a.ok)
         [] call = SYS_SEND -> sys_send(a.fd, a.ok, a.len, a.flags)
         [] call = SYS_RECV -> sys_recv(a.fd, a.ok, a.len, a.flags)
         [] call = SYS_SENDTO -> sys_sendto(a.fd, a.ok, a.len, a.flags, "null")
         [] call = SYS_RECVFROM -> sys_recvfrom(a.fd, a.ok, a.len, a.flags, "null")
         [] call = SYS_SENDMSG -> sys_sendmsg(a.fd, a.vec[1], a.flags)
         [] call = SYS_SENDMMSG -> sys_sendmmsg(a.fd, a.ok, a.vec, a.flags)
         [] OTHER -> SocketcallReturn(call, readable, -EINVAL)

(* ---------------------------------------------------------------------- *)
(* The error translator applied to the thread's last host error           *)
(* ---------------------------------------------------------------------- *)
HostCodes == {0} \cup {WSA_NOT_ENOUGH_MEMORY} \cup (10000..10110)

translate_call ==
  /\ pc = "idle"
  /\ op' = [name |-> "translate_socket_error", error |-> lastError]
  /\ ret' = translate_socket_error(lastError).ret
  /\ log' = translate_socket_error(lastError).log
  /\ UNCHANGED <<socket_inited, wsa, files, handlevars, hostvars, pc, lastError>>

(* ---------------------------------------------------------------------- *)
(* Specifications                                                         *)
(* ---------------------------------------------------------------------- *)
Seg(len, ok) == [len |-> len, ok |-> ok]
Msg(iov) == [hdr_ok |-> TRUE, iov_ok |-> TRUE, iov |-> iov, controllen |-> 0, control_ok |-> TRUE]
MsgOne == Msg(<<Seg(1, TRUE)>>)
MsgTwo == Msg(<<Seg(1, TRUE), Seg(1, TRUE)>>)
MsgEmpty == Msg(<<>>)
MsgBadSeg == Msg(<<Seg(1, TRUE), Seg(1, FALSE)>>)
VecsOf(M) == UNION {[1..n -> M] : n \in 0..MaxVlen}

SocketTypes == {LINUX_SOCK_STREAM, LINUX_SOCK_STREAM + 2048}

(* Spec: every operation of the socket layer on one socket, each with a   *)
(* few representative arguments, and the host.                            *)
Next ==
  \/ \E t \in SocketTypes : sys_socket(LINUX_AF_INET, t, 0)
  \/ vfs_close
  \/ socket_get_poll_status
  \/ socket_get_poll_handle
  \/ sys_connect(1, TRUE)
  \/ socket_wait_event
  \/ WaitForSingleObject
  \/ \E fl \in {{}, LINUX_MSG_DONTWAIT} : sys_send(1, TRUE, 2, fl)
  \/ socket_sendto
  \/ sys_sendmsg(1, MsgOne, {})
  \/ sys_sendmmsg(1, TRUE, <<MsgOne, MsgTwo>>, {})
  \/ socket_sendmsg
  \/ \E fl \in {{}, LINUX_MSG_PEEK} : sys_recv(1, TRUE, 1, fl)
  \/ socket_recvfrom_claim
  \/ socket_recvfrom
  \/ \E b \in Bytes : HostDataArrives(b)
  \/ HostSendSpace
  \/ \E err \in ConnectCompletions : HostConnectDone(err)

Spec == Init /\ [][Next]_vars

(* SpecSend: the send family with every entry point and a range of        *)
(* message vectors.                                                       *)
NextSend ==
  \/ \E t \in SocketTypes : sys_socket(LINUX_AF_INET, t, 0)
  \/ sys_connect(1, TRUE)
  \/ socket_wait_event
  \/ WaitForSingleObject
  \/ \E fl \in {{}, LINUX_MSG_DONTWAIT} : sys_send(1, TRUE, 2, fl)
  \/ sys_sendto(1, TRUE, 2, {}, "null")
  \/ socket_write(2)
  \/ socket_sendto
  \/ \E m \in {MsgTwo, MsgBadSeg} : sys_sendmsg(1, m, {})
  \/ \E v \in VecsOf({MsgOne, MsgEmpty, MsgBadSeg}), fl \in {{}, LINUX_MSG_DONTWAIT} :
       sys_sendmmsg(1, TRUE, v, fl)
  \/ socket_sendmsg
  \/ HostSendSpace
  \/ \E err \in ConnectCompletions : HostConnectDone(err)

SpecSend == Init /\ [][NextSend]_vars

(* SpecLife: creation and teardown over a range of socket() arguments. *)
Domains == {LINUX_AF_UNSPEC, LINUX_AF_UNIX, LINUX_AF_INET, LINUX_AF_INET6, 3, 16}
Types == {0, LINUX_SOCK_STREAM, LINUX_SOCK_DGRAM, LINUX_SOCK_RAW, LINUX_SOCK_RDM,
          LINUX_SOCK_SEQPACKET, 6, LINUX_SOCK_STREAM + 2048, 6 + 2048}
Protocols == {0, 6}

NextLife ==
  \/ \E d \in Domains, t \in Types, p \in Protocols : sys_socket(d, t, p)
  \/ vfs_close
  \/ socket_get_poll_handle

SpecLife == Init /\ [][NextLife]_vars

(* SpecCall: every syscall entered through socketcall. *)
CallIds == (0 - 1)..(SYS_SENDMMSG + 2)
Readables == {AL(0), AL(3), AL(6)}
CallArgs ==
  {[fd |-> 1, ok |-> TRUE, len |-> 1, flags |-> {}, domain |-> LINUX_AF_INET,
    type |-> LINUX_SOCK_STREAM + 2048, protocol |-> 0, vec |-> <<MsgOne>>]}

NextCall ==
  \/ \E call \in CallIds, readable \in Readables, a \in CallArgs :
       sys_socketcall(call, readable, a)
  \/ socket_wait_event
  \/ socket_sendto
  \/ socket_sendmsg
  \/ \E err \in ConnectCompletions : HostConnectDone(err)

SpecCall == Init /\ [][NextCall]_vars

(* SpecTranslate: the error translator on every host code of HostCodes. *)
InitTranslate ==
  /\ socket_inited = FALSE
  /\ wsa = [startups |-> 0, cleanups |-> 0, failed |-> FALSE]
  /\ files = (0 :> [op_vtable |-> "file_ops", ref |-> 1])
  /\ liveSockets = {}
  /\ liveEvents = {}
  /\ staleRelease = FALSE
  /\ netEvents = {}
  /\ netConnErr = 0
  /\ rcvBuf = <<>>
  /\ sndFull = FALSE
  /\ connState = "unconnected"
  /\ pc = "idle"
  /\ op = [name |-> "none"]
  /\ ret = 0
  /\ lastError \in HostCodes
  /\ log = {}

SpecTranslate == InitTranslate /\ [][translate_call]_vars
(* ---------------------------------------------------------------------- *)
(* Properties                                                             *)
(* ---------------------------------------------------------------------- *)

(* C1: a send-family operation (send, sendto, write, sendmsg, sendmmsg)   *)
(* on a non-blocking socket, or called with MSG_DONTWAIT, whose host      *)
(* transfer failed with WSAEWOULDBLOCK comes back to socket_wait_event;   *)
(* with no new FD_WRITE notification pending its next step returns        *)
(* -EWOULDBLOCK from the send primitive (sendmmsg: the count of messages  *)
(* already sent when that is positive): the thread neither suspends nor   *)
(* attempts the host transfer again.                                      *)
C1_WouldBlockReturnsWithoutRetry ==
  [][(/\ pc = "retry"
      /\ op.name \in {"send", "sendto", "write", "sendmsg", "sendmmsg"}
      /\ (F.flags \cap O_NONBLOCK) /= {} \/ (op.flags \cap LINUX_MSG_DONTWAIT) /= {}
      /\ (netEvents \cap FD_WRITE) = {}
      /\ pc' /= pc)
     => /\ pc' = "idle"
        /\ \/ ret' = -EWOULDBLOCK
           \/ op.name = "sendmmsg" /\ op.i > 0 /\ ret' = op.i]_vars

(* C2 (as stated): sendmmsg with a valid, sendable first message and a    *)
(* second message holding an unreadable buffer segment sends the first    *)
(* message and returns 1.                                                 *)
C2_SecondUnreadableReturnsOne ==
  (/\ op.name = "sendmmsg"
   /\ op.vec_ok
   /\ Len(op.vec) >= 2
   /\ op.vec[1].hdr_ok /\ op.vec[1].iov_ok /\ op.vec[1].control_ok
   /\ \A j \in 1..Len(op.vec[1].iov) : op.vec[1].iov[j].ok
   /\ op.vec[2].hdr_ok /\ op.vec[2].iov_ok
   /\ \E j \in 1..Len(op.vec[2].iov) : ~op.vec[2].iov[j].ok
   /\ pc = "idle")
  => (ret = 1 /\ Len(op.sent) = 1)

(* C2 (amended): sendmmsg with a valid, sendable first message and a      *)
(* second message holding an unreadable buffer segment returns -EFAULT:   *)
(* every message of the vector is validated before any is sent, so no     *)
(* message is handed to the host and no msg_len is recorded.              *)
C2_SecondUnreadableFaults ==
  (/\ op.name = "sendmmsg"
   /\ op.vec_ok
   /\ Len(op.vec) >= 2
   /\ op.vec[1].hdr_ok /\ op.vec[1].iov_ok /\ op.vec[1].control_ok
   /\ \A j \in 1..Len(op.vec[1].iov) : op.vec[1].iov[j].ok
   /\ op.vec[2].hdr_ok /\ op.vec[2].iov_ok
   /\ \E j \in 1..Len(op.vec[2].iov) : ~op.vec[2].iov[j].ok)
  => (pc = "idle" /\ ret = -EFAULT /\ op.sent = <<>> /\ op.msg_len = <<>>)

(* C2 witness: the call returned on a connected socket whose write-ready  *)
(* bit is set and whose host send buffer has room.                        *)
C2_Witness ==
  /\ pc = "idle"
  /\ op.name = "sendmmsg"
  /\ op.vec = <<MsgOne, MsgBadSeg>>
  /\ op.vec_ok
  /\ ret = -EFAULT
  /\ HasSock
  /\ op.fd = SockFd
  /\ connState = "connected"
  /\ (F.events \cap FD_WRITE) /= {}
  /\ ~sndFull

(* C3: connect on a blocking socket whose host connect reported           *)
(* WSAEWOULDBLOCK returns 0 when the completion carried no error and      *)
(* otherwise the translated negative errno of the completion error, and   *)
(* the connect-completed bit is clear when it returns.                    *)
C3_BlockingConnectResult ==
  (/\ pc = "idle"
   /\ op.name = "connect"
   /\ op.err = WSAEWOULDBLOCK
   /\ HasSock
   /\ (F.flags \cap O_NONBLOCK) = {})
  => /\ ret = IF lastError = 0 THEN 0 ELSE translate_socket_error(lastError).ret
     /\ ret <= 0
     /\ (F.events \cap FD_CONNECT) = {}

(* C4: after connect returned -EINPROGRESS on a non-blocking socket and   *)
(* the host delivered the completion, the readiness query that sees the   *)
(* connect-completed class reports it, clears the bit and makes the       *)
(* captured error current, so that no later query sees it again.          *)
C4_ConnectCompletionConsumed ==
  (/\ pc = "idle"
   /\ op.name = "get_poll_status"
   /\ HasSock
   /\ (F.flags \cap O_NONBLOCK) /= {}
   /\ (op.e \cap FD_CONNECT) /= {})
  => /\ (F.events \cap FD_CONNECT) = {}
     /\ lastError = F.connect_error

(* C5: a read-ready bit that is set stays set across every step but a     *)
(* receive without MSG_PEEK (socket_get_poll_status and peeking receives  *)
(* included); a successful peeking receive returns the first bytes of     *)
(* the host's receive buffer and leaves the buffer as it was, so a        *)
(* second peek of the same length returns the same bytes.                 *)
C5_PeekKeepsReadReady ==
  [][/\ (HasSock /\ HasSock' /\ FD_READ \subseteq F.events)
          => \/ FD_READ \subseteq F'.events
             \/ /\ pc = "xfer"
                /\ op.name \in {"recv", "recvfrom", "read"}
                /\ (op.flags \cap LINUX_MSG_PEEK) = {}
     /\ (/\ pc = "host"
         /\ op.name \in {"recv", "recvfrom", "read"}
         /\ LINUX_MSG_PEEK \subseteq op.flags
         /\ pc' = "idle"
         /\ ret' >= 0)
          => /\ rcvBuf' = rcvBuf
             /\ FD_READ \subseteq F'.events
             /\ ret' = Min(op.len, Len(rcvBuf))
             /\ op'.data = SubSeq(rcvBuf, 1, ret')]_vars

(* C5 witness: a peeking receive has returned one byte, the byte is still *)
(* the head of the receive buffer and the read-ready bit is still set.    *)
C5_Witness ==
  /\ pc = "idle"
  /\ op.name = "recv"
  /\ LINUX_MSG_PEEK \subseteq op.flags
  /\ ret = 1
  /\ rcvBuf /= <<>>
  /\ op.data = SubSeq(rcvBuf, 1, 1)
  /\ HasSock
  /\ FD_READ \subseteq F.events

(* C6: socket() checks its arguments in the order address family, kind,   *)
(* protocol: an unmapped family returns -EAFNOSUPPORT whatever the other  *)
(* two are, a mapped family with an unmapped kind or with a protocol      *)
(* other than 0 returns -EPROTONOSUPPORT, and a rejected call creates no  *)
(* native socket, no event object and no descriptor.                      *)
C6_SocketArgumentChecks ==
  [][LET mapped_af == {LINUX_AF_UNSPEC, LINUX_AF_UNIX, LINUX_AF_INET, LINUX_AF_INET6}
         mapped_kind == {LINUX_SOCK_DGRAM, LINUX_SOCK_STREAM, LINUX_SOCK_RAW,
                         LINUX_SOCK_RDM, LINUX_SOCK_SEQPACKET}
         expected == IF op'.domain \notin mapped_af THEN -EAFNOSUPPORT
                     ELSE IF (op'.type % (LINUX_SOCK_TYPE_MASK + 1)) \notin mapped_kind
                          THEN -EPROTONOSUPPORT
                     ELSE IF op'.protocol /= 0 THEN -EPROTONOSUPPORT
                     ELSE 0
     IN (op'.name = "socket" /\ pc' = "idle" /\ expected /= 0)
        => /\ ret' = expected
           /\ UNCHANGED <<files, liveSockets, liveEvents>>]_vars

(* C6 witness: a call with all three arguments unsupported was rejected   *)
(* for its address family.                                                *)
C6_Witness ==
  /\ pc = "idle"
  /\ op.name = "socket"
  /\ op.domain = 3
  /\ op.type = 6
  /\ op.protocol = 6
  /\ ret = -EAFNOSUPPORT
  /\ liveSockets = {}

(* C7: socketcall returns -EINVAL for a call number below 1 or above      *)
(* SYS_SENDMMSG, -EFAULT when fewer than nargs[call] bytes of the         *)
(* argument vector are readable, and -EINVAL for a call number in range   *)
(* that has no handler; in each case nothing is dispatched and no socket  *)
(* state changes.                                                         *)
C7_SocketcallValidates ==
  [][\A call \in CallIds, readable \in Readables, a \in CallArgs :
       LET implemented == {SYS_SOCKET, SYS_CONNECT, SYS_GETSOCKNAME, SYS_GETPEERNAME,
                           SYS_SEND, SYS_RECV, SYS_SENDTO, SYS_RECVFROM, SYS_SENDMSG,
                           SYS_SENDMMSG}
           expected == IF call < 1 \/ call > SYS_SENDMMSG THEN -EINVAL
                       ELSE IF readable < nargs[call + 1] THEN -EFAULT
                       ELSE IF call \notin implemented THEN -EINVAL
                       ELSE 0
       IN (expected /= 0 /\ sys_socketcall(call, readable, a))
          => /\ pc' = "idle"
             /\ ret' = expected
             /\ op' = [name |-> "socketcall", call |-> call, readable |-> readable]
             /\ UNCHANGED <<socket_inited, wsa, files, handlevars, hostvars>>]_vars

(* C7 witness: SYS_SEND with three readable argument words of its four    *)
(* was refused while a socket existed.                                    *)
C7_Witness ==
  /\ pc = "idle"
  /\ op.name = "socketcall"
  /\ op.call = SYS_SEND
  /\ op.readable = AL(3)
  /\ ret = -EFAULT
  /\ HasSock

(* C8: the open native sockets and the open event objects are exactly     *)
(* those of the socket files in the descriptor table, and no handle is    *)
(* ever released twice: a socket and its event object are created         *)
(* together, every failing path of socket() leaves none behind, and close *)
(* releases each once.                                                    *)
C8_HandlesPaired ==
  /\ liveSockets = {files[fd].socket : fd \in SockFds}
  /\ liveEvents = {files[fd].event_handle : fd \in SockFds}
  /\ ~staleRelease

(* C8 witness: socket() failed with -ENFILE on event setup while an       *)
(* earlier socket is open.                                                *)
C8_Witness ==
  /\ pc = "idle"
  /\ op.name = "socket"
  /\ ret = -ENFILE
  /\ HasSock
  /\ liveSockets /= {}

(* C9: translate_socket_error gives every host code a negative result:    *)
(* each code of the table its Linux code with nothing logged, any other   *)
(* code -EIO with the host code logged.                                   *)
C9_TranslateTable ==
  LET table ==
      {<<WSA_NOT_ENOUGH_MEMORY, ENOMEM>>, <<WSAEINTR, EINTR>>,
      <<WSAEBADF, EBADF>>, <<WSAEACCES, EACCES>>, <<WSAEFAULT, EFAULT>>,
      <<WSAEINVAL, EINVAL>>, <<WSAEMFILE, EMFILE>>,
      <<WSAEWOULDBLOCK, EWOULDBLOCK>>, <<WSAEALREADY, EALREADY>>,
      <<WSAENOTSOCK, ENOTSOCK>>, <<WSAEDESTADDRREQ, EDESTADDRREQ>>,
      <<WSAEMSGSIZE, EMSGSIZE>>, <<WSAEPROTOTYPE, EPROTOTYPE>>,
      <<WSAENOPROTOOPT, ENOPROTOOPT>>,
      <<WSAEPROTONOSUPPORT, EPROTONOSUPPORT>>,
      <<WSAESOCKTNOSUPPORT, EPROTONOSUPPORT>>, <<WSAEOPNOTSUPP, EOPNOTSUPP>>,
      <<WSAEPFNOSUPPORT, EAFNOSUPPORT>>, <<WSAEAFNOSUPPORT, EAFNOSUPPORT>>,
      <<WSAEADDRINUSE, EADDRINUSE>>, <<WSAEADDRNOTAVAIL, EADDRNOTAVAIL>>,
      <<WSAENETDOWN, ENETDOWN>>, <<WSAENETUNREACH, ENETUNREACH>>,
      <<WSAENETRESET, ENETRESET>>, <<WSAECONNABORTED, ECONNABORTED>>,
      <<WSAECONNRESET, ECONNRESET>>, <<WSAENOBUFS, ENOBUFS>>,
      <<WSAEISCONN, EISCONN>>, <<WSAENOTCONN, ENOTCONN>>,
      <<WSAETIMEDOUT, ETIMEDOUT>>, <<WSAECONNREFUSED, ECONNREFUSED>>,
      <<WSAELOOP, ELOOP>>, <<WSAENAMETOOLONG, ENAMETOOLONG>>,
      <<WSAEHOSTDOWN, ETIMEDOUT>>, <<WSAEHOSTUNREACH, EHOSTUNREACH>>,
      <<WSAENOTEMPTY, ENOTEMPTY>>, <<WSAECANCELLED, ECANCELED>>}
  IN op.name = "translate_socket_error"
     => /\ ret < 0
        /\ \A p \in table : op.error = p[1] => (ret = -p[2] /\ log = {})
        /\ (\A p \in table : op.error /= p[1]) => (ret = -EIO /\ log = {op.error})

(* C9 witness: a host code outside the table was translated. *)
C9_Witness ==
  /\ op.name = "translate_socket_error"
  /\ op.error = 10058
  /\ ret = -EIO
  /\ log = {10058}

(* C10: sendmmsg on a vector of valid messages, on a socket that stays    *)
(* writable and with the host sending every message in full, returns the  *)
(* vector's length and records each message's byte count as its msg_len,  *)
(* zero-length messages included.                                         *)
C10_AllMessagesSent ==
  (/\ pc = "idle"
   /\ op.name = "sendmmsg"
   /\ op.vec_ok
   /\ \A k \in 1..Len(op.vec) :
        /\ op.vec[k].hdr_ok /\ op.vec[k].iov_ok /\ op.vec[k].control_ok
        /\ \A j \in 1..Len(op.vec[k].iov) : op.vec[k].iov[j].ok
   /\ HasSock
   /\ op.fd = SockFd
   /\ (F.events \cap FD_WRITE) /= {}
   /\ lastError = 0
   /\ \A k \in 1..Len(op.sent) : op.sent[k] = TotalLen(op.vec[k].iov))
  => /\ ret = Len(op.vec)
     /\ op.msg_len = op.sent
     /\ Len(op.sent) = Len(op.vec)

(* C11: sendmmsg hands the messages to the host in vector order, one host *)
(* call per message, and stops at the first message that is not sent in   *)
(* full: when wait_for reports would-block for message i it returns       *)
(* -EWOULDBLOCK for i = 0 and i otherwise; when the host transfer of      *)
(* message i fails hard it returns the translated error for i = 0 and i   *)
(* otherwise; when the host sends fewer bytes than the message's segments *)
(* hold it returns i + 1; a message sent in full is followed by the next  *)
(* message, or by the return of the vector's length after the last one.   *)
C11_SendmmsgStoppingRule ==
  [][(op.name = "sendmmsg" /\ pc \in {"wait", "retry", "woken", "xfer"} /\ pc' /= pc)
     => LET i == op.i
            vlen == Len(op.vec)
            total == TotalLen(op.vec[i + 1].iov)
        IN /\ op'.vec = op.vec
           /\ Len(op.sent) = i
           /\ (pc \in {"wait", "retry", "woken"} /\ pc' = "idle")
                => ret' = IF i = 0 THEN -EWOULDBLOCK ELSE i
           /\ (pc = "xfer" /\ Len(op'.sent) = Len(op.sent))
                => \/ pc' = "retry" /\ lastError' = WSAEWOULDBLOCK
                   \/ /\ pc' = "idle"
                      /\ ret' = IF i = 0 THEN translate_socket_error(lastError').ret ELSE i
           /\ (pc = "xfer" /\ Len(op'.sent) /= Len(op.sent))
                => /\ Len(op'.sent) = i + 1
                   /\ IF op'.sent[i + 1] < total THEN pc' = "idle" /\ ret' = i + 1
                      ELSE IF i + 1 = vlen THEN pc' = "idle" /\ ret' = vlen
                      ELSE pc' = "wait" /\ op'.i = i + 1]_vars

(* SpecCheck: the nine descriptor-taking syscalls on a non-blocking       *)
(* socket, a regular file and an absent descriptor, with readable and     *)
(* unreadable guest ranges.                                               *)
MsgBadHdr == [MsgOne EXCEPT !.hdr_ok = FALSE]
MsgBadIov == [MsgOne EXCEPT !.iov_ok = FALSE]
MsgBadControl == [MsgOne EXCEPT !.controllen = 1, !.control_ok = FALSE]
CheckFds == 0..2
CheckMsgs == {MsgOne, MsgBadHdr, MsgBadIov, MsgBadControl, MsgBadSeg}
CheckVecs == {<<MsgOne>>, <<MsgBadHdr>>, <<MsgBadSeg>>, <<MsgOne, MsgBadSeg>>}
CheckAddrs == {"null", "unreadable", "unwritable"}

NextCheck ==
  \/ sys_socket(LINUX_AF_INET, LINUX_SOCK_STREAM + 2048, 0)
  \/ \E fd \in CheckFds, addr_ok \in BOOLEAN : sys_connect(fd, addr_ok)
  \/ \E fd \in CheckFds, addrlen_ok \in BOOLEAN, addr_ok \in BOOLEAN :
       sys_getsockname(fd, addrlen_ok, addr_ok)
  \/ \E fd \in CheckFds, addrlen_ok \in BOOLEAN, addr_ok \in BOOLEAN :
       sys_getpeername(fd, addrlen_ok, addr_ok)
  \/ \E fd \in CheckFds, buf_ok \in BOOLEAN : sys_send(fd, buf_ok, 1, {})
  \/ \E fd \in CheckFds, buf_ok \in BOOLEAN : sys_recv(fd, buf_ok, 1, {})
  \/ \E fd \in CheckFds, buf_ok \in BOOLEAN, a \in CheckAddrs : sys_sendto(fd, buf_ok, 1, {}, a)
  \/ \E fd \in CheckFds, buf_ok \in BOOLEAN, a \in CheckAddrs : sys_recvfrom(fd, buf_ok, 1, {}, a)
  \/ \E fd \in CheckFds, m \in CheckMsgs : sys_sendmsg(fd, m, {})
  \/ \E fd \in CheckFds, ok \in BOOLEAN, v \in CheckVecs : sys_sendmmsg(fd, ok, v, {})
  \/ socket_wait_event
  \/ socket_sendto
  \/ socket_sendmsg
  \/ socket_recvfrom_claim
  \/ socket_recvfrom
  \/ HostDataArrives(7)
  \/ \E err \in ConnectCompletions : HostConnectDone(err)

SpecCheck == Init /\ [][NextCheck]_vars

(* C12: each of connect, getsockname, getpeername, send, recv, sendto,    *)
(* recvfrom, sendmsg and sendmmsg returns -EFAULT when a guest range it   *)
(* validates is inaccessible (for sendmsg and sendmmsg: the header, the   *)
(* segment array, the control buffer or any buffer segment), otherwise    *)
(* -EBADF when the descriptor is absent, otherwise -ENOTSOCK when the     *)
(* descriptor is not a socket; in these cases the call returns at once    *)
(* and neither the host's state nor any socket resource (bitmask, connect *)
(* error, flags) nor any handle changes.                                  *)
C12_ValidateFirst ==
  [][(pc = "idle" /\ op'.name \in {"connect", "getsockname", "getpeername", "send", "recv",
                                   "sendto", "recvfrom", "sendmsg", "sendmmsg"})
     => LET fd == op'.fd
            resolve == IF fd \notin DOMAIN files THEN -EBADF
                       ELSE IF files[fd].op_vtable /= socket_ops THEN -ENOTSOCK
                       ELSE 0
            expected(fault) == IF fault THEN -EFAULT ELSE resolve
            msg_fault(m) == \/ ~m.hdr_ok
                            \/ m.iov /= <<>> /\ ~m.iov_ok
                            \/ m.controllen /= 0 /\ ~m.control_ok
                            \/ \E j \in 1..Len(m.iov) : ~m.iov[j].ok
            rejected == /\ pc' = "idle"
                        /\ UNCHANGED <<files, hostvars, handlevars>>
        IN /\ op'.name = "connect" =>
                \A a \in BOOLEAN :
                  (expected(~a) /= 0 /\ sys_connect(fd, a))
                    => (rejected /\ ret' = expected(~a))
           /\ op'.name \in {"getsockname", "getpeername"} =>
                \A l \in BOOLEAN, a \in BOOLEAN :
                  (expected(~l \/ ~a) /= 0
                     /\ (sys_getsockname(fd, l, a) \/ sys_getpeername(fd, l, a)))
                    => (rejected /\ ret' = expected(~l \/ ~a))
           /\ op'.name \in {"send", "recv"} =>
                \A b \in BOOLEAN :
                  (expected(~b) /= 0 /\ (sys_send(fd, b, 1, {}) \/ sys_recv(fd, b, 1, {})))
                    => (rejected /\ ret' = expected(~b))
           /\ op'.name = "sendto" =>
                \A b \in BOOLEAN, a \in CheckAddrs :
                  (expected(~b \/ a = "unreadable") /= 0 /\ sys_sendto(fd, b, 1, {}, a))
                    => (rejected /\ ret' = expected(~b \/ a = "unreadable"))
           /\ op'.name = "recvfrom" =>
                \A b \in BOOLEAN, a \in CheckAddrs :
                  (expected(~b \/ a = "unwritable") /= 0 /\ sys_recvfrom(fd, b, 1, {}, a))
                    => (rejected /\ ret' = expected(~b \/ a = "unwritable"))
           /\ op'.name = "sendmsg" =>
                \A m \in CheckMsgs :
                  (expected(msg_fault(m)) /= 0 /\ sys_sendmsg(fd, m, {}))
                    => (rejected /\ ret' = expected(msg_fault(m)))
           /\ op'.name = "sendmmsg" =>
                \A ok \in BOOLEAN, v \in CheckVecs :
                  LET fault == ~ok \/ \E k \in 1..Len(v) : msg_fault(v[k])
                  IN (expected(fault) /= 0 /\ sys_sendmmsg(fd, ok, v, {}))
                       => (rejected /\ ret' = expected(fault))]_vars

(* C12 witness: a sendmsg whose message has an unreadable segment was     *)
(* refused on a connected socket that is ready to send.                   *)
C12_Witness ==
  /\ pc = "idle"
  /\ op.name = "sendmsg"
  /\ op.vec = <<MsgBadSeg>>
  /\ ret = -EFAULT
  /\ HasSock
  /\ op.fd = SockFd
  /\ connState = "connected"
  /\ FD_WRITE \subseteq F.events

(* C13: whenever socket_sendto, socket_sendmsg or socket_recvfrom (with   *)
(* or without MSG_PEEK) comes back to socket_wait_event after the host    *)
(* transfer failed with WSAEWOULDBLOCK, the sticky bit of the class it    *)
(* waits on (FD_WRITE for sends, FD_READ for receives) is clear in the    *)
(* resource's bitmask.                                                    *)
C13_WouldBlockClearsBit ==
  pc = "retry" => (F.events \cap op.event) = {}

(* C14: a receive without MSG_PEEK clears the read-ready bit after        *)
(* socket_wait_event succeeded and before recvfrom() is called, with no   *)
(* host call in between; the bit is clear whenever recvfrom() is about to *)
(* be called, and the step that calls recvfrom() changes no resource and  *)
(* erases nothing from the host's record of notifications; an update that *)
(* finds FD_READ recorded by the host folds it into the bitmask.          *)
C14_ReadBitClearedBeforeTransfer ==
  [][LET nonpeek(o) == /\ o.name \in {"recv", "recvfrom", "read"}
                       /\ (o.flags \cap LINUX_MSG_PEEK) = {}
     IN /\ (pc = "xfer" /\ nonpeek(op) /\ pc' /= pc)
             => /\ pc' = "host"
                /\ (F'.events \cap FD_READ) = {}
                /\ UNCHANGED <<hostvars, op>>
        /\ (pc' = "host" /\ nonpeek(op')) => (F'.events \cap FD_READ) = {}
        /\ (pc = "host" /\ pc' /= pc)
             => /\ files' = files
                /\ netEvents \subseteq netEvents'
        /\ (FD_READ \subseteq netEvents
              /\ (socket_get_poll_status \/ (pc \in {"wait", "retry", "woken"} /\ pc' /= pc)))
             => FD_READ \subseteq F'.events]_vars

(* C14 witness: a receive without MSG_PEEK has returned a byte, its       *)
(* read-ready bit is clear, and the FD_READ notification the host posted  *)
(* for the bytes still buffered is on the host's record.                  *)
C14_Witness ==
  /\ pc = "idle"
  /\ op.name = "recv"
  /\ (op.flags \cap LINUX_MSG_PEEK) = {}
  /\ ret = 1
  /\ rcvBuf /= <<>>
  /\ FD_READ \subseteq netEvents
  /\ HasSock
  /\ (F.events \cap FD_READ) = {}

(* C15 (as stated): a bit of the sticky bitmask is set only by an update  *)
(* folding in a host notification of that class, and cleared only, for    *)
(* FD_WRITE, by a send whose host transfer would block, for FD_READ, by a *)
(* receive without MSG_PEEK, for FD_CONNECT, by an update that reports    *)
(* its error; the poll-status query clears no bit and does not modify the *)
(* connect error, the poll-handle query changes nothing.                  *)
C15_BitsAndPollQueriesAsStated ==
  [][(HasSock /\ HasSock')
     => LET set == F'.events \ F.events
            cleared == F.events \ F'.events
            update == socket_get_poll_status \/ (pc \in {"wait", "retry", "woken"} /\ pc' /= pc)
        IN /\ set /= {} => (update /\ set \subseteq netEvents)
           /\ cleared \subseteq (FD_WRITE \cup FD_READ \cup FD_CONNECT)
           /\ FD_WRITE \subseteq cleared
                => /\ pc = "xfer" /\ pc' = "retry"
                   /\ op.name \in {"send", "sendto", "write", "sendmsg", "sendmmsg"}
                   /\ lastError' = WSAEWOULDBLOCK
           /\ FD_READ \subseteq cleared
                => /\ pc = "xfer"
                   /\ op.name \in {"recv", "recvfrom", "read"}
                   /\ (op.flags \cap LINUX_MSG_PEEK) = {}
           /\ FD_CONNECT \subseteq cleared
                => /\ pc \in {"wait", "retry", "woken"} /\ pc' /= pc
                   /\ op.event = FD_CONNECT
                   /\ lastError' = F.connect_error
                   /\ F'.connect_error = 0
           /\ socket_get_poll_status
                => /\ cleared = {}
                   /\ F'.connect_error = F.connect_error
           /\ socket_get_poll_handle => files' = files]_vars

(* C15 (amended): as stated, except that the poll-status query modifies   *)
(* the connect error in one case: when it folds in a connect-completed    *)
(* notification it stores the error code the host attached to it.         *)
C15_BitsAndPollQueries ==
  [][(HasSock /\ HasSock')
     => LET set == F'.events \ F.events
            cleared == F.events \ F'.events
            update == socket_get_poll_status \/ (pc \in {"wait", "retry", "woken"} /\ pc' /= pc)
        IN /\ set /= {} => (update /\ set \subseteq netEvents)
           /\ cleared \subseteq (FD_WRITE \cup FD_READ \cup FD_CONNECT)
           /\ FD_WRITE \subseteq cleared
                => /\ pc = "xfer" /\ pc' = "retry"
                   /\ op.name \in {"send", "sendto", "write", "sendmsg", "sendmmsg"}
                   /\ lastError' = WSAEWOULDBLOCK
           /\ FD_READ \subseteq cleared
                => /\ pc = "xfer"
                   /\ op.name \in {"recv", "recvfrom", "read"}
                   /\ (op.flags \cap LINUX_MSG_PEEK) = {}
           /\ FD_CONNECT \subseteq cleared
                => /\ pc \in {"wait", "retry", "woken"} /\ pc' /= pc
                   /\ op.event = FD_CONNECT
                   /\ lastError' = F.connect_error
                   /\ F'.connect_error = 0
           /\ socket_get_poll_status
                => /\ cleared = {}
                   /\ \/ F'.connect_error = F.connect_error
                      \/ FD_CONNECT \subseteq netEvents /\ F'.connect_error = netConnErr
           /\ socket_get_poll_handle => files' = files]_vars

(* C15 witness: the poll-status query has folded in the completion of a   *)
(* refused connect and holds its error.                                   *)
C15_Witness ==
  /\ pc = "idle"
  /\ op.name = "get_poll_status"
  /\ HasSock
  /\ FD_CONNECT \subseteq F.events
  /\ F.connect_error = WSAECONNREFUSED

(* C16: in every state of a socket resource a non-zero connect error      *)
(* implies that the connect-completed bit is set; the connect error       *)
(* changes only in an update, either to the error code of a               *)
(* connect-completed notification being folded in or to zero when the     *)
(* update reports it; an update asked to report connect-completed that    *)
(* finds the bit set makes the error current, clears the bit and resets   *)
(* the error in that same step.                                           *)
C16_ConnectErrorImpliesBit ==
  /\ [](HasSock => (F.connect_error /= 0 => FD_CONNECT \subseteq F.events))
  /\ [][(HasSock /\ HasSock')
        => LET update == socket_get_poll_status \/ (pc \in {"wait", "retry", "woken"} /\ pc' /= pc)
               reporting == /\ pc \in {"wait", "retry", "woken"} /\ pc' /= pc
                            /\ op.event = FD_CONNECT
                            /\ FD_CONNECT \subseteq (F.events \cup netEvents)
           IN /\ F'.connect_error /= F.connect_error
                   => /\ update
                      /\ \/ FD_CONNECT \subseteq netEvents /\ F'.connect_error = netConnErr
                         \/ reporting /\ F'.connect_error = 0
              /\ reporting
                   => /\ F'.connect_error = 0
                      /\ (F'.events \cap FD_CONNECT) = {}
                      /\ lastError' = IF FD_CONNECT \subseteq netEvents THEN netConnErr
                                      ELSE F.connect_error]_vars

(* C16 witness: a blocking connect has returned after the update reported *)
(* the error of a refused connect: the error is current, the bit is clear *)
(* and the captured error is zero.                                        *)
C16_Witness ==
  /\ pc = "idle"
  /\ op.name = "connect"
  /\ op.err = WSAEWOULDBLOCK
  /\ lastError = WSAECONNREFUSED
  /\ HasSock
  /\ (F.flags \cap O_NONBLOCK) = {}
  /\ F.connect_error = 0
  /\ (F.events \cap FD_CONNECT) = {}

(* C17: one iteration of socket_wait_event succeeds exactly when the      *)
(* wanted bit is in the mask its update returns (the sticky bits together *)
(* with the notifications just enumerated); with the wanted bit clear it  *)
(* suspends exactly when the socket is blocking and MSG_DONTWAIT was not  *)
(* passed, and otherwise returns -EWOULDBLOCK without suspending; a       *)
(* suspended thread resumes only when the event object is signaled, and   *)
(* whatever class signaled it, it resumes into a new iteration that       *)
(* updates and checks again.                                              *)
C17_WaitForRechecks ==
  [][LET e == F.events \cup
                (netEvents \cap (FD_READ \cup FD_WRITE \cup FD_ACCEPT \cup FD_CONNECT \cup FD_CLOSE))
         wanted == (e \cap op.event) /= {}
         nowait == \/ (F.flags \cap O_NONBLOCK) /= {}
                   \/ (op.flags \cap LINUX_MSG_DONTWAIT) /= {}
         success == IF op.name = "connect" THEN pc' = "idle" ELSE pc' = "xfer"
     IN /\ (pc \in {"wait", "retry", "woken"} /\ pc' /= pc)
             => /\ success <=> wanted
                /\ pc' = "blocked" <=> (~wanted /\ ~nowait)
                /\ (pc' = "idle" /\ op.name /= "connect") <=> (~wanted /\ nowait)
                /\ (~wanted /\ nowait)
                     => ret' = IF op.name = "sendmmsg" /\ op.i > 0 THEN op.i
                               ELSE -EWOULDBLOCK
        /\ (pc = "blocked" /\ pc' /= pc)
             => /\ pc' = "woken"
                /\ netEvents /= {}
                /\ UNCHANGED <<files, hostvars>>]_vars

(* C17 witness: a thread suspended in a blocking receive has been woken   *)
(* by a notification of another class; neither the sticky bits nor the    *)
(* host's record hold FD_READ.                                            *)
C17_Witness ==
  /\ pc = "woken"
  /\ op.name = "recv"
  /\ netEvents /= {}
  /\ ((netEvents \cup F.events) \cap FD_READ) = {}

(* SpecArm: connection set-up, waiting and polling on one socket, with a  *)
(* peer that may close the connection.                                    *)
NextArm ==
  \/ \E t \in SocketTypes : sys_socket(LINUX_AF_INET, t, 0)
  \/ vfs_close
  \/ sys_connect(1, TRUE)
  \/ \E fl \in {{}, LINUX_MSG_DONTWAIT} : sys_recv(1, TRUE, 1, fl)
  \/ socket_wait_event
  \/ WaitForSingleObject
  \/ socket_get_poll_status
  \/ \E err \in ConnectCompletions : HostConnectDone(err)
  \/ HostPeerCloses

SpecArm == Init /\ [][NextArm]_vars

(* C18: the event object of a socket is armed for FD_READ, FD_WRITE,      *)
(* FD_ACCEPT, FD_CONNECT and FD_CLOSE: once the peer has closed the       *)
(* connection, FD_CLOSE is on the host's record for the socket (where it  *)
(* signals the event object and the next update folds it in) or already   *)
(* in the sticky bitmask.                                                 *)
C18_PeerCloseIsNotified ==
  (HasSock /\ connState = "peer_closed")
    => FD_CLOSE \subseteq (netEvents \cup F.events)

(* ---------------------------------------------------------------------- *)
(* SpecLive: one guest thread on one blocking stream socket, with fair    *)
(* scheduling of the thread.                                              *)
(* ---------------------------------------------------------------------- *)
NextLive ==
  \/ sys_socket(LINUX_AF_INET, LINUX_SOCK_STREAM, 0)
  \/ sys_connect(1, TRUE)
  \/ socket_get_poll_status
  \/ \E fl \in {{}, LINUX_MSG_PEEK} : sys_recv(1, TRUE, 1, fl)
  \/ sys_send(1, TRUE, 1, {})
  \/ sys_sendmsg(1, MsgOne, {})
  \/ socket_wait_event
  \/ WaitForSingleObject
  \/ socket_sendto
  \/ socket_sendmsg
  \/ socket_recvfrom_claim
  \/ socket_recvfrom
  \/ HostDataArrives(7)
  \/ HostSendSpace
  \/ \E err \in ConnectCompletions : HostConnectDone(err)
  \/ HostPeerCloses

(* A step of the guest thread inside a syscall.  The thread is the only   *)
(* consumer of the socket and the host schedules it whenever it can run;  *)
(* WaitForSingleObject(INFINITE) returns once the manual-reset event is   *)
(* signaled, and only the thread's own WSAEnumNetworkEvents resets it.    *)
ThreadStep ==
  \/ socket_wait_event
  \/ WaitForSingleObject
  \/ socket_sendto
  \/ socket_sendmsg
  \/ socket_recvfrom_claim
  \/ socket_recvfrom

SpecLive == Init /\ [][NextLive]_vars /\ WF_vars(ThreadStep)

(* C19: with a single consumer thread no readiness notification is lost.  *)
(* A class that is on the host's record or in the sticky bitmask stays    *)
(* there until the consumer claims it (receive claims read-ready before   *)
(* its transfer, send claims write-ready when the host would block,       *)
(* connect consumes the completion); the next update reports it, so a     *)
(* wait for that class returns ready; and under fair scheduling a blocking*)
(* wait whose class has been posted eventually returns, a blocking        *)
(* receive with data buffered and a blocking send with buffer space       *)
(* eventually complete, also when the notification arrives after the      *)
(* update that decided to suspend.                                        *)
C19_NoNotificationLost ==
  /\ [][ (HasSock /\ HasSock') =>
           /\ \A c \in netEvents \cup F.events :
                \/ c \in netEvents' \cup F'.events
                \/ {c} = FD_READ /\ pc = "xfer" /\ pc' = "host"
                     /\ (op.flags \cap LINUX_MSG_PEEK) = {}
                \/ {c} = FD_WRITE /\ pc = "xfer" /\ pc' = "retry"
                \/ {c} = FD_CONNECT /\ pc \in {"wait", "retry", "woken"}
                     /\ op.event = FD_CONNECT /\ pc' /= pc
           /\ (pc \in {"wait", "retry", "woken"} /\ pc' /= pc
                 /\ (op.event \cap (netEvents \cup F.events)) /= {})
                => \/ pc' = "xfer"
                   \/ op.name = "connect" /\ pc' = "idle"
           /\ (pc = "idle" /\ op'.name = "get_poll_status" /\ netEvents' = {}
                 /\ connState' = connState)
                => (netEvents \cup F.events) \subseteq op'.e
     ]_vars
  /\ (pc \in {"wait", "retry", "woken", "blocked"}
        /\ (op.event \cap (netEvents \cup F.events)) /= {})
       ~> (pc \in {"xfer", "idle"})
  /\ (pc \in {"wait", "retry", "woken", "blocked"} /\ op.event = FD_READ
        /\ rcvBuf /= <<>> /\ connState = "connected")
       ~> (pc = "idle")
  /\ (pc \in {"wait", "retry", "woken", "blocked"} /\ op.event = FD_WRITE
        /\ ~sndFull /\ connState = "connected")
       ~> (pc = "idle")

(* The thread has decided to suspend in a blocking receive and the data   *)
(* with its notification arrived after that update.                       *)
C19_Witness ==
  /\ pc = "blocked"
  /\ op.name = "recv"
  /\ FD_READ \subseteq netEvents
  /\ rcvBuf /= <<>>

(* ---------------------------------------------------------------------- *)
(* SpecInit: the process from socket_init to socket_shutdown, with socket *)
(* syscalls in between.                                                   *)
(* ---------------------------------------------------------------------- *)
NextInit ==
  \/ \E d \in {LINUX_AF_INET, 3}, t \in SocketTypes : sys_socket(d, t, 0)
  \/ vfs_close
  \/ sys_connect(1, TRUE)
  \/ sys_recv(1, TRUE, 1, LINUX_MSG_DONTWAIT)
  \/ socket_get_poll_status
  \/ socket_wait_event
  \/ WaitForSingleObject
  \/ socket_recvfrom_claim
  \/ socket_recvfrom
  \/ HostDataArrives(7)
  \/ \E err \in ConnectCompletions : HostConnectDone(err)
  \/ socket_shutdown

SpecInit == Init /\ [][NextInit]_vars

(* C20: between socket_init and socket_shutdown the host networking       *)
(* subsystem is started at most once, by the first socket call and before *)
(* any native socket exists; no other operation starts it; a failed       *)
(* start-up terminates the process, returning nothing and opening nothing;*)
(* socket_shutdown releases the subsystem exactly when it was started.    *)
C20_StartedOnceReleasedIfStarted ==
  /\ [](/\ wsa.startups <= 1
        /\ socket_inited <=> wsa.startups = 1
        /\ liveSockets /= {} => wsa.startups = 1
        /\ wsa.failed <=> pc = "exited"
        /\ wsa.cleanups = (IF pc = "shutdown" THEN wsa.startups ELSE 0))
  /\ [][ /\ wsa'.startups /= wsa.startups =>
              pc = "idle" /\ ~socket_inited /\ op'.name = "socket"
         /\ (pc = "idle" /\ ~socket_inited /\ op'.name = "socket") =>
              \/ wsa'.startups = 1 /\ socket_inited' /\ pc' = "idle"
              \/ pc' = "exited"
         /\ (pc /= "exited" /\ pc' = "exited") =>
              /\ op'.name = "socket"
              /\ wsa'.failed
              /\ wsa'.startups = 0
              /\ ret' = ret
              /\ files' = files
              /\ liveSockets' = liveSockets
     ]_vars

(* The process shut down after it had started the subsystem and opened a  *)
(* socket: the subsystem was started once and released once.              *)
C20_Witness ==
  /\ pc = "shutdown"
  /\ wsa.startups = 1
  /\ wsa.cleanups = 1
  /\ liveSockets /= {}
====
